---------------------------- MODULE Spec2Model ----------------------------
(***************************************************************************)
(* The /scrape request lifecycle of the puppeteer-paywall service          *)
(* (server-optimus variant, src/unnamed/part_002 lines 396-1004) and the   *)
(* tab-duplicator extension it talks to.                                   *)
(*                                                                         *)
(* A request is an async handler: every `await` is one step of the model.  *)
(* The collaborators (browser, page, extension, file system) answer each   *)
(* awaited call with one of the outcomes the call can have; a call the     *)
(* code gives no timeout may also stay unanswered ("silent").              *)
(*                                                                         *)
(* Strings are sequences of tokens.  A token is either one of the patterns *)
(* the code searches for with String.includes, or a piece of text holding  *)
(* none of them, so that s.includes(p) is "p is a token of s".             *)
(***************************************************************************)
EXTENDS Integers, Sequences, FiniteSets, TLC

NumReq == 2
MaxWorkers == 2
MaxNodes == 2
MaxMsgs == 3

Reqs == 1..NumReq

Null == 0

\* A field the JSON body does not carry (JavaScript undefined).
Missing == <<"<undefined>">>

\* JavaScript truthiness of a string-or-undefined value: !v is true for
\* undefined and for the empty string.
Truthy(v) == v # Missing /\ v # <<>>

includes(s, p) == \E i \in DOMAIN s : s[i] = p

-----------------------------------------------------------------------------
(* Request bodies *)

PlainUrl == <<"https://example.com/">>
WsjUrl == <<"https://www.", "wsj.com/", "articles/x">>
TimeoutUrl == <<"https://example.com/", "timeout">>
\* A page whose content is known: it holds one h1 (the page of the
\* verification run in FIX-2026-01-08-report.md).
FixedUrl == <<"https://example.com/", "index.html">>

CssSel == <<"h1">>
XSel == <<"//p/text()">>
XSelTimeout == <<"//div[@class='", "timeout", "'][">>
XSelNet == <<"//a[contains(@href,'", "net::ERR_", "')][">>

Body(u, s, m, d) == [url |-> u, selector |-> s, method |-> m, debug |-> d]

\* Bodies failing the validation: url or selector undefined or "".
InvalidBodies ==
    { Body(u, s, m, d) : u \in {Missing, <<>>, PlainUrl},
                         s \in {Missing, <<>>, CssSel},
                         m \in {"<undefined>", "xpath"},
                         d \in BOOLEAN } \
    { Body(PlainUrl, CssSel, m, d) : m \in {"<undefined>", "xpath"}, d \in BOOLEAN }

ValidBodies ==
    { Body(PlainUrl, CssSel, m, d) : m \in {"<undefined>", "css", "XPATH"},
                                     d \in BOOLEAN }
    \cup { Body(PlainUrl, s, "xpath", d) : s \in {XSel, XSelTimeout, XSelNet},
                                           d \in BOOLEAN }
    \cup { Body(WsjUrl, CssSel, "css", d) : d \in BOOLEAN }
    \cup { Body(WsjUrl, XSel, "xpath", FALSE) }
    \cup { Body(TimeoutUrl, CssSel, "css", FALSE) }
    \cup { Body(PlainUrl, CssSel, "jsonpath", FALSE) }

Bodies == InvalidBodies \cup ValidBodies

\* Mutation: the method is lower-cased before it is compared.
methodOfIgnoreCase(b) ==
    IF b.method = "<undefined>" THEN "css"
    ELSE IF b.method = "XPATH" THEN "xpath"
    ELSE b.method

\* const { url, selector, method = "css", debug = false } = req.body
methodOf(b) == IF b.method = "<undefined>" THEN "css" ELSE b.method

-----------------------------------------------------------------------------
(* Errors: name and message are what the classification reads. *)

Error(n, m) == [name |-> n, message |-> m]
NoError == Error("<none>", <<>>)


\* fs.mkdtempSync fails (disk full, no permission).
MkdtempError == Error("Error", <<"ENOSPC: no space left on device, mkdtemp">>)

\* puppeteer.launch: the process exits at once, or is not ready in 60000 ms.
LaunchFailed == Error("Error", <<"Failed to launch the browser process!">>)
LaunchTimeout ==
    Error("TimeoutError",
          <<"Timed out after 60000 ms while waiting for the WS endpoint URL">>)

\* A call on a browser, page or handle whose target is gone.
ProtocolError == Error("Error", <<"Protocol error: Target closed">>)

\* page.goto: not settled in 45000 ms, or a network-level error, whose
\* message names the URL.
NavTimeout ==
    Error("TimeoutError", <<"Navigation ", "timeout", " of 45000 ms ", "exceeded">>)
NavNetError(url) ==
    Error("Error", <<"net::ERR_", "NAME_NOT_RESOLVED at ">> \o url)

\* page.waitForSelector: the selector did not appear in 15000 ms.
SelectorTimeout(selector) ==
    Error("TimeoutError",
          <<"Waiting for ", "selector", " '">> \o selector
              \o <<"' failed: Waiting failed: 15000ms ", "exceeded">>)

HandleNull(selector) ==
    Error("Error",
          <<"CSS ", "selector", " '">> \o selector
              \o <<"' was found by waitForSelector, but handle is unexpectedly null.">>)

\* Messages of the exceptions document.evaluate / iterateNext raise in the
\* page: a syntax error quotes the expression, a mutated document does not.
XPathSyntaxMsg(selector) ==
    <<"Failed to execute 'evaluate' on 'Document': The string '">> \o selector
        \o <<"' is not a valid XPath expression.">>
XPathMutatedMsg ==
    <<"Failed to execute 'iterateNext' on 'XPathResult': The document has mutated.">>

\* catch (error) { throw new Error('XPath evaluation failed in browser: ' + error.message) }
XPathFailed(original) ==
    Error("Error", <<"XPath evaluation failed", " in browser: ">> \o original)

\* Errors thrown by duplicateTabViaExtension.
DupNotFound ==
    Error("Error", <<"Tab-duplicator extension not found among service workers">>)
DupCommandError(m) == Error("Error", m)

-----------------------------------------------------------------------------
(* Error classification and the error response (the catch block). *)

\* Mutation: the timeout test is left out of the classification.
statusCodeNoTimeout(error) ==
    IF /\ includes(error.message, "selector")
       /\ \/ includes(error.message, "not found")
          \/ includes(error.message, "failed to find element")
    THEN 404
    ELSE IF \/ includes(error.message, "Navigation failed")
            \/ includes(error.message, "net::ERR_")
    THEN 502
    ELSE IF includes(error.message, "XPath evaluation failed")
    THEN 400
    ELSE 500

\* Mutation: the status starts out as 400 instead of 500.
statusCodeDefault400(error) ==
    IF \/ error.name = "TimeoutError"
       \/ includes(error.message, "timeout")
       \/ includes(error.message, "exceeded")
    THEN 504
    ELSE IF /\ includes(error.message, "selector")
            /\ \/ includes(error.message, "not found")
               \/ includes(error.message, "failed to find element")
    THEN 404
    ELSE IF \/ includes(error.message, "Navigation failed")
            \/ includes(error.message, "net::ERR_")
    THEN 502
    ELSE 400

\* let statusCode = 500; if (...) 504 else if (...) 404 else if (...) 502
\* else if (...) 400
statusCodeOf(error) ==
    IF \/ error.name = "TimeoutError"
       \/ includes(error.message, "timeout")
       \/ includes(error.message, "exceeded")
    THEN 504
    ELSE IF /\ includes(error.message, "selector")
            /\ \/ includes(error.message, "not found")
               \/ includes(error.message, "failed to find element")
    THEN 404
    ELSE IF \/ includes(error.message, "Navigation failed")
            \/ includes(error.message, "net::ERR_")
    THEN 502
    ELSE IF includes(error.message, "XPath evaluation failed")
    THEN 400
    ELSE 500

\* Mutation: the stack is gated by the debug flag alone.
stackDebugOnly(debug, env) == debug

\* stack: debug || process.env.NODE_ENV === "development" ? error.stack : undefined
stackIncluded(debug, env) == debug \/ env = "development"

\* JSON.stringify drops a field whose value is undefined.
errorBody(error, debug, env) ==
    IF stackIncluded(debug, env)
    THEN [error |-> "Scraping failed", details |-> error.message,
          type |-> error.name, stack |-> "<stack>"]
    ELSE [error |-> "Scraping failed", details |-> error.message,
          type |-> error.name]

Response(status, type, b) == [status |-> status, type |-> type, body |-> b]

validationResponse ==
    Response(400, "application/json",
             [error |-> "Missing required fields: url and selector"])

errorResponse(error, debug, env) ==
    Response(statusCodeOf(error), "application/json", errorBody(error, debug, env))

-----------------------------------------------------------------------------
(* The page: the nodes the selector or expression matches, in document     *)
(* order, and the values extraction makes of them.                         *)

Node(t, html, value) == [nodeType |-> t, outerHTML |-> html, nodeValue |-> value]

ElemA == Node(1, "<h1>Example Domain</h1>", "<null>")
ElemB == Node(1, "<h1>Second</h1>", "<null>")
AttrN == Node(2, "<undefined>", "attr-value")
TextT == Node(3, "<undefined>", "some text")
CommentC == Node(8, "<undefined>", "a comment")
DocD == Node(9, "<undefined>", "<null>")
\* JavaScript null where a node is expected (singleNodeValue of no match).
NoNode == Node(0, "<null>", "<null>")

Elements == {ElemA, ElemB}
AnyNodes == {ElemA, AttrN, TextT, CommentC, DocD}

SeqsUpTo(S, n) == UNION { [1..k -> S] : k \in 0..n }

\* An expression the XPath parser rejects.
Malformed(selector) == selector \in {XSelTimeout, XSelNet}

\* What the page can hold for a request: a CSS selector matches elements
\* only, an XPath expression any kind of node, a malformed one nothing.
DomsFor(b) ==
    IF b.url = FixedUrl THEN {<<ElemA>>}
    ELSE IF methodOf(b) = "xpath"
    THEN IF Malformed(b.selector) THEN {<<>>} ELSE SeqsUpTo(AnyNodes, MaxNodes)
    ELSE SeqsUpTo(Elements, MaxNodes)

\* JavaScript values carried by a payload, tagged with their typeof.
JsString(tokens) == [t |-> "string", v |-> tokens]
JsNumber(n) == [t |-> "number", v |-> <<n>>]
JsBoolean(x) == [t |-> "boolean", v |-> <<x>>]
JsNull == [t |-> "null", v |-> <<>>]

Undefined == [kind |-> "undefined"]
Html(h) == [kind |-> "html", html |-> h]
Array(items) == [kind |-> "array", items |-> items]

\* Mutation: a comment node gives its value without the delimiters, and
\* the default arm gives the node value.
processNodeValueOnly(node) ==
    IF node = NoNode THEN JsNull
    ELSE IF node.nodeType = 1 THEN JsString(<<node.outerHTML>>)
    ELSE JsString(<<node.nodeValue>>)

processNode(node) ==
    IF node = NoNode THEN JsNull
    ELSE IF node.nodeType = 1 THEN JsString(<<node.outerHTML>>)
    ELSE IF node.nodeType \in {2, 3} THEN JsString(<<node.nodeValue>>)
    ELSE IF node.nodeType = 8 THEN JsString(<<"<!-- ", node.nodeValue, " -->">>)
    ELSE JsString(<<"Unsupported node type: ", ToString(node.nodeType)>>)

\* XPathResult type codes: 1 number, 2 string, 3 boolean, 4/5 iterators,
\* 6/7 snapshots, 8/9 single node; anything else is unknown to the switch.
XPathResultTypes == 0..9

\* Mutation: a single-node result without a match gives an empty array.
xpathPayloadNoNull(resultType, nodes) ==
    IF resultType = 1 THEN <<JsNumber("42")>>
    ELSE IF resultType = 2 THEN <<JsString(<<"abc">>)>>
    ELSE IF resultType = 3 THEN <<JsBoolean("true")>>
    ELSE IF resultType \in {4, 5, 6, 7}
    THEN [i \in 1..Len(nodes) |-> processNode(nodes[i])]
    ELSE IF resultType \in {8, 9}
    THEN IF nodes = <<>> THEN <<>> ELSE <<processNode(nodes[1])>>
    ELSE <<JsString(<<"Unknown XPathResult type: ", ToString(resultType)>>)>>

\* Mutation: the snapshot loop stops one item early (i < snapshotLength - 1).
xpathPayloadShort(resultType, nodes) ==
    IF resultType = 1 THEN <<JsNumber("42")>>
    ELSE IF resultType = 2 THEN <<JsString(<<"abc">>)>>
    ELSE IF resultType = 3 THEN <<JsBoolean("true")>>
    ELSE IF resultType \in {4, 5}
    THEN [i \in 1..Len(nodes) |-> processNode(nodes[i])]
    ELSE IF resultType \in {6, 7}
    THEN [i \in 1..(IF nodes = <<>> THEN 0 ELSE Len(nodes) - 1) |-> processNode(nodes[i])]
    ELSE IF resultType \in {8, 9}
    THEN <<processNode(IF nodes = <<>> THEN NoNode ELSE nodes[1])>>
    ELSE <<JsString(<<"Unknown XPathResult type: ", ToString(resultType)>>)>>

\* The switch on result.resultType; nodes are the matched nodes in
\* document order (what iterateNext and snapshotItem walk through).
xpathPayload(resultType, nodes) ==
    IF resultType = 1 THEN <<JsNumber("42")>>
    ELSE IF resultType = 2 THEN <<JsString(<<"abc">>)>>
    ELSE IF resultType = 3 THEN <<JsBoolean("true")>>
    ELSE IF resultType \in {4, 5, 6, 7}
    THEN [i \in 1..Len(nodes) |-> processNode(nodes[i])]
    ELSE IF resultType \in {8, 9}
    THEN <<processNode(IF nodes = <<>> THEN NoNode ELSE nodes[1])>>
    ELSE <<JsString(<<"Unknown XPathResult type: ", ToString(resultType)>>)>>

\* Mutation: the handle is the last match of the selector.
cssPayloadLast(nodes) == nodes[Len(nodes)].outerHTML

\* elementHandle.evaluate(el => el.outerHTML) on the handle of the first match.
cssPayload(nodes) == nodes[1].outerHTML

-----------------------------------------------------------------------------
(* The extension workers of the launched browser. *)

PageTarget == [type |-> "page", extension |-> FALSE, kind |-> "page"]
Worker(k) == [type |-> "service_worker", extension |-> TRUE, kind |-> k]

\* if (request.action === "duplicateTab"): the one message the listener of
\* background.js has a branch for.
handled(action) == action = "duplicateTab"

\* How a worker behaves when asked: it answers the identify message with its
\* identity ("tab-duplicator", "a"), does not answer within the second, its
\* messaging rejects, its context cannot be got, or it is the worker of the
\* extension of this repository (background.js).
WorkerKinds == {"tab-duplicator", "a", "noreply", "msgError", "ctxError", "background.js"}

TargetLists ==
    { <<PageTarget>> \o ws : ws \in SeqsUpTo({Worker(k) : k \in WorkerKinds}, MaxWorkers) }

\* targets.filter(t => t.type() === "service_worker" &&
\*                     t.url().includes("chrome-extension://"))
IsExtensionWorker(t) == t.type = "service_worker" /\ t.extension
serviceWorkersOf(ts) == SelectSeq(ts, IsExtensionWorker)

\* What the sendMessage callback of the duplicateTab command can see:
\* chrome.runtime.lastError, and the response (undefined, or an object).
Reply(le, resp, succ, err) ==
    [lastError |-> le, response |-> resp, success |-> succ, error |-> err]

CommandReplies ==
    { Reply("<none>", "object", TRUE, "<undefined>"),
      Reply("<none>", "object", FALSE, "no active tab"),
      Reply("<none>", "object", FALSE, "<undefined>"),
      Reply("<none>", "<undefined>", FALSE, "<undefined>"),
      Reply("The message port closed before a response was received.",
            "<undefined>", FALSE, "<undefined>") }

\* Mutation: the missing reply is tested before chrome.runtime.lastError.
commandOutcomeReplyFirst(reply) ==
    IF reply.response # "<undefined>" /\ reply.success THEN "<resolve>"
    ELSE IF reply.response = "<undefined>" THEN "No response from extension"
    ELSE IF reply.lastError # "<none>" THEN reply.lastError
    ELSE IF reply.error # "<undefined>" THEN reply.error
    ELSE "Unknown error"

\* The callback: "<resolve>" or the message of the Error it rejects with.
commandOutcome(reply) ==
    IF reply.lastError # "<none>" THEN reply.lastError
    ELSE IF reply.response # "<undefined>" /\ reply.success THEN "<resolve>"
    ELSE IF reply.response = "<undefined>" THEN "No response from extension"
    ELSE IF reply.error # "<undefined>" THEN reply.error
    ELSE "Unknown error"

\* The reply the callback saw and what it settled the promise with.
Settled(reply, outcome) == [reply |-> reply, outcome |-> outcome]
NoReply == Settled(Reply("<none>", "<none>", FALSE, "<none>"), "<pending>")

-----------------------------------------------------------------------------
(* The messages the listener of background.js receives. *)

Msgs == 1..MaxMsgs

\* popup.js sends duplicateTab; duplicateTabViaExtension sends identify and
\* duplicateTab.
SentActions == {"identify", "duplicateTab"}

Message(action, at, tab, replies) ==
    [action |-> action, pc |-> at, tab |-> tab, replies |-> replies]
Unsent == Message("<none>", "unsent", Null, <<>>)

\* sendResponse({success: true, newTabId: newTab.id})
Duplicated(newTabId) == [success |-> TRUE, newTabId |-> newTabId]

-----------------------------------------------------------------------------
(* State *)

VARIABLES
    nodeEnv,             \* process.env.NODE_ENV, fixed at startup
    body,                \* body[r]: req.body of request r
    pc,                  \* pc[r]: the await the handler of r is at
    stuck,               \* stuck[r]: the awaited call will never be answered
    browser,             \* handler locals: browser, page, userDataDir
    page,
    userDataDir,
    error,               \* the error the catch block received
    sent,                \* sent[r]: the responses written to res, in order
    log,                 \* log[r]: what the handler did, in order
    dom,                 \* dom[r]: matched nodes of the navigated page
    elementHandle,       \* "none", "held" or "disposed"
    extractedData,
    resultType,          \* result.resultType of the XPath evaluation, Null before it
    serviceWorkers,      \* duplicateTabViaExtension locals
    wi,                  \* position of the for...of loop over serviceWorkers
    tabDuplicatorWorker, \* index of the worker found, Null if none
    asked,               \* positions of the workers sent "identify", in order
    dupReply,            \* what the duplicateTab callback saw and settled with
    ext,                 \* ext[m]: message m as the listener of background.js treats it
    tabs,                \* the tabs of the browser the extension runs in
    procs,               \* the browser processes alive
    pages,               \* the pages open
    dirs                 \* the profile directories on disk

\* What the handler reads or talks to and never writes.
inputs == <<nodeEnv, body, ext, tabs>>
handles == <<browser, page, userDataDir>>
extraction == <<dom, elementHandle, extractedData, resultType>>
dupLocals == <<serviceWorkers, wi, tabDuplicatorWorker, asked, dupReply>>
world == <<procs, pages, dirs>>
vars == <<nodeEnv, body, pc, stuck, browser, page, userDataDir, error, sent, log,
          dom, elementHandle, extractedData, resultType, serviceWorkers, wi,
          tabDuplicatorWorker, asked, dupReply, ext, tabs, procs, pages, dirs>>

Upd(f, r, v) == [f EXCEPT ![r] = v]
Logged(r, ev) == Upd(log, r, Append(log[r], ev))

\* Mutation: one fixed profile directory and one browser for every request.
sharedName(used) == 1

\* The lowest name not in use: mkdtempSync and launch give a fresh
\* directory and a fresh process.
Fresh(used) == CHOOSE n \in 1..(NumReq + 1) : n \notin used /\ \A m \in 1..(n - 1) : m \in used

\* Request 1 arrives; the others are not sent.
Init ==
    /\ nodeEnv \in {"production", "development"}
    /\ \E b \in Bodies :
          body = [r \in Reqs |-> IF r = 1 THEN b
                                 ELSE Body(Missing, Missing, "<undefined>", FALSE)]
    /\ pc = [r \in Reqs |-> IF r = 1 THEN "start" ELSE "absent"]
    /\ stuck = [r \in Reqs |-> FALSE]
    /\ browser = [r \in Reqs |-> Null]
    /\ page = [r \in Reqs |-> Null]
    /\ userDataDir = [r \in Reqs |-> Null]
    /\ error = [r \in Reqs |-> NoError]
    /\ sent = [r \in Reqs |-> <<>>]
    /\ log = [r \in Reqs |-> <<>>]
    /\ dom = [r \in Reqs |-> <<>>]
    /\ elementHandle = [r \in Reqs |-> "none"]
    /\ extractedData = [r \in Reqs |-> Undefined]
    /\ resultType = [r \in Reqs |-> Null]
    /\ serviceWorkers = [r \in Reqs |-> <<>>]
    /\ wi = [r \in Reqs |-> 0]
    /\ tabDuplicatorWorker = [r \in Reqs |-> Null]
    /\ asked = [r \in Reqs |-> <<>>]
    /\ dupReply = [r \in Reqs |-> NoReply]
    /\ ext = [m \in Msgs |-> Unsent]
    /\ tabs = {1}
    /\ procs = {}
    /\ pages = {}
    /\ dirs = {}

At(r, label) == pc[r] = label /\ ~stuck[r]

\* An exception reaches the catch block of the handler.
Throws(r, e, ev) ==
    /\ pc' = Upd(pc, r, "catch")
    /\ error' = Upd(error, r, e)
    /\ log' = Logged(r, ev)

\* The awaited call is never answered and the code set no timeout.
Hangs(r) ==
    /\ stuck' = Upd(stuck, r, TRUE)
    /\ UNCHANGED <<pc, error, log>>

-----------------------------------------------------------------------------
(* app.post("/scrape"): validation and provisioning *)

\* Mutation: the selector is not validated.
invalidUrlOnly(b) == ~Truthy(b.url)

\* if (!url || !selector)
invalid(b) == ~Truthy(b.url) \/ ~Truthy(b.selector)

Validate(r) ==
    /\ At(r, "start")
    /\ \/ /\ invalid(body[r])
          /\ sent' = Upd(sent, r, Append(sent[r], validationResponse))
          /\ pc' = Upd(pc, r, "done")
          /\ log' = Logged(r, "rejected")
       \/ /\ ~invalid(body[r])
          /\ pc' = Upd(pc, r, "mkdtemp")
          /\ log' = Logged(r, "validated")
          /\ UNCHANGED sent
    /\ UNCHANGED <<inputs, stuck, handles, error, extraction, dupLocals, world>>

Mkdtemp(r) ==
    /\ At(r, "mkdtemp")
    /\ \/ /\ userDataDir' = Upd(userDataDir, r, Fresh(dirs))
          /\ dirs' = dirs \cup {Fresh(dirs)}
          /\ pc' = Upd(pc, r, "launch")
          /\ log' = Logged(r, "mkdtemp")
          /\ UNCHANGED error
       \/ /\ Throws(r, MkdtempError, "mkdtempFailed")
          /\ UNCHANGED <<userDataDir, dirs>>
    /\ UNCHANGED <<inputs, stuck, browser, page, sent, extraction, dupLocals, procs, pages>>

\* await puppeteer.launch({..., timeout: 60000})
Launch(r) ==
    /\ At(r, "launch")
    /\ \/ /\ browser' = Upd(browser, r, Fresh(procs))
          /\ procs' = procs \cup {Fresh(procs)}
          /\ pc' = Upd(pc, r, "targets")
          /\ log' = Logged(r, "launched")
          /\ UNCHANGED error
       \/ /\ \E e \in {LaunchFailed, LaunchTimeout} : Throws(r, e, "launchFailed")
          /\ UNCHANGED <<browser, procs>>
    /\ UNCHANGED <<inputs, stuck, page, userDataDir, sent, extraction, dupLocals, pages, dirs>>

\* await browser.targets(): a listing for the debug log.
ListTargets(r) ==
    /\ At(r, "targets")
    /\ pc' = Upd(pc, r, "newPage")
    /\ UNCHANGED <<inputs, stuck, handles, error, sent, log, extraction, dupLocals, world>>

\* page = await browser.newPage()
NewPage(r) ==
    /\ At(r, "newPage")
    /\ \/ /\ page' = Upd(page, r, browser[r])
          /\ pages' = pages \cup {browser[r]}
          /\ pc' = Upd(pc, r, "setViewport")
          /\ log' = Logged(r, "newPage")
          /\ UNCHANGED <<error, stuck>>
       \/ /\ Throws(r, ProtocolError, "newPageFailed")
          /\ UNCHANGED <<page, pages, stuck>>
       \/ /\ Hangs(r)
          /\ UNCHANGED <<page, pages>>
    /\ UNCHANGED <<inputs, browser, userDataDir, sent, extraction, dupLocals, procs, dirs>>

\* An awaited call on the page that the code gives no timeout: it resolves,
\* rejects, or is never answered.
PageCall(r, at, next) ==
    /\ At(r, at)
    /\ \/ /\ pc' = Upd(pc, r, next)
          /\ UNCHANGED <<error, log, stuck>>
       \/ /\ Throws(r, ProtocolError, at \o "Failed")
          /\ UNCHANGED stuck
       \/ Hangs(r)
    /\ UNCHANGED <<inputs, handles, sent, extraction, dupLocals, world>>

\* await new Promise(resolve => setTimeout(resolve, ms))
Delay(r, at, next) ==
    /\ At(r, at)
    /\ pc' = Upd(pc, r, next)
    /\ UNCHANGED <<inputs, stuck, handles, error, sent, log, extraction, dupLocals, world>>

SetViewport(r) == PageCall(r, "setViewport", "setUserAgent")
SetUserAgent(r) == PageCall(r, "setUserAgent", "preNavDelay")
PreNavDelay(r) == Delay(r, "preNavDelay", "goto")

-----------------------------------------------------------------------------
(* Navigation *)

\* Mutation: the side effect is run for every url.
sideEffectAlways(url) == TRUE

\* if (url.includes("wsj.com/"))
sideEffectWanted(url) == includes(url, "wsj.com/")

\* await page.goto(url, {waitUntil: "networkidle2", timeout: 45000})
Goto(r) ==
    /\ At(r, "goto")
    /\ \/ /\ \E d \in DomsFor(body[r]) : dom' = Upd(dom, r, d)
          /\ pc' = Upd(pc, r, IF sideEffectWanted(body[r].url)
                              THEN "dupTargets" ELSE "mouseMove")
          /\ log' = Logged(r, "navigated")
          /\ UNCHANGED error
       \/ /\ Throws(r, NavTimeout, "gotoTimeout")
          /\ UNCHANGED dom
       \/ /\ Throws(r, NavNetError(body[r].url), "gotoNetError")
          /\ UNCHANGED dom
    /\ UNCHANGED <<inputs, stuck, handles, sent, elementHandle, extractedData,
                   resultType, dupLocals, world>>

-----------------------------------------------------------------------------
(* duplicateTabViaExtension(browser, logDebug), called inside                *)
(* try { await duplicateTabViaExtension(...) } catch (dupError) { log }      *)

\* Mutation: no try/catch at the call site, the error reaches the handler's
\* catch block.
onDupErrorPropagates(r, e) == [pc |-> "catch", error |-> e]

\* Where the handler goes, and with which caught error, when the call
\* throws e: the catch at the call site logs e and the handler goes on.
onDupError(r, e) == [pc |-> "mouseMove", error |-> error[r]]

\* The function leaves (its locals are gone) by returning or by throwing e.
DupReturns(r) ==
    /\ pc' = Upd(pc, r, "mouseMove")
    /\ log' = Logged(r, "dupOk")
    /\ serviceWorkers' = Upd(serviceWorkers, r, <<>>)
    /\ wi' = Upd(wi, r, 0)
    /\ tabDuplicatorWorker' = Upd(tabDuplicatorWorker, r, Null)
    /\ asked' = Upd(asked, r, <<>>)
    /\ dupReply' = Upd(dupReply, r, NoReply)
    /\ UNCHANGED error

DupThrows(r, e) ==
    /\ pc' = Upd(pc, r, onDupError(r, e).pc)
    /\ error' = Upd(error, r, onDupError(r, e).error)
    /\ log' = Logged(r, "dupFailed")
    /\ serviceWorkers' = Upd(serviceWorkers, r, <<>>)
    /\ wi' = Upd(wi, r, 0)
    /\ tabDuplicatorWorker' = Upd(tabDuplicatorWorker, r, Null)
    /\ asked' = Upd(asked, r, <<>>)
    /\ dupReply' = Upd(dupReply, r, NoReply)

\* Mutation: the loop body rethrows, so the first worker that is not a match
\* ends the search.
LoopFromAbort(r, sw, i, found, q) ==
    IF found # Null
    THEN /\ pc' = Upd(pc, r, "dupContext")
         /\ wi' = Upd(wi, r, i)
         /\ tabDuplicatorWorker' = Upd(tabDuplicatorWorker, r, found)
         /\ serviceWorkers' = Upd(serviceWorkers, r, sw)
         /\ asked' = Upd(asked, r, q)
         /\ UNCHANGED <<error, log, dupReply>>
    ELSE IF i = 1 /\ i <= Len(sw)
    THEN /\ pc' = Upd(pc, r, "dupWorker")
         /\ wi' = Upd(wi, r, i)
         /\ serviceWorkers' = Upd(serviceWorkers, r, sw)
         /\ asked' = Upd(asked, r, q)
         /\ UNCHANGED <<error, log, tabDuplicatorWorker, dupReply>>
    ELSE DupThrows(r, DupNotFound)

\* The for...of loop goes on with worker i of sw, or ends: then a found worker is
\* sent the command, and without one the function throws.
LoopFrom(r, sw, i, found, q) ==
    IF found # Null
    THEN /\ pc' = Upd(pc, r, "dupContext")
         /\ wi' = Upd(wi, r, i)
         /\ tabDuplicatorWorker' = Upd(tabDuplicatorWorker, r, found)
         /\ serviceWorkers' = Upd(serviceWorkers, r, sw)
         /\ asked' = Upd(asked, r, q)
         /\ UNCHANGED <<error, log, dupReply>>
    ELSE IF i <= Len(sw)
    THEN /\ pc' = Upd(pc, r, "dupWorker")
         /\ wi' = Upd(wi, r, i)
         /\ serviceWorkers' = Upd(serviceWorkers, r, sw)
         /\ asked' = Upd(asked, r, q)
         /\ UNCHANGED <<error, log, tabDuplicatorWorker, dupReply>>
    ELSE DupThrows(r, DupNotFound)

\* const targets = await browser.targets(); the filter; the loop begins.
DupTargets(r) ==
    /\ At(r, "dupTargets")
    /\ \E ts \in TargetLists : LoopFrom(r, serviceWorkersOf(ts), 1, Null, <<>>)
    /\ UNCHANGED <<inputs, stuck, handles, sent, extraction, world>>

\* const workerContext = await worker.worker(); an error is caught in the
\* loop body, which continues with the next worker.
DupWorker(r) ==
    /\ At(r, "dupWorker")
    /\ IF serviceWorkers[r][wi[r]].kind = "ctxError"
       THEN LoopFrom(r, serviceWorkers[r], wi[r] + 1, Null, asked[r])
       ELSE /\ pc' = Upd(pc, r, "dupIdentify")
            /\ UNCHANGED <<error, log, dupLocals>>
    /\ UNCHANGED <<inputs, stuck, handles, sent, extraction, world>>

\* The reply to {action: "identify"}, raced against a 1000 ms timer whose
\* rejection .catch turns into null.
identityOf(worker) ==
    IF worker.kind \in {"noreply", "msgError"} THEN "<null>"
    ELSE IF worker.kind = "background.js"
    THEN IF handled("identify") THEN "tab-duplicator" ELSE "<null>"
    ELSE worker.kind

\* Mutation: any worker that replies is taken for the duplicator.
isAnyReply(identity) == identity # "<null>"

\* if (identity && identity.identity === "tab-duplicator")
isTabDuplicator(identity) == identity # "<null>" /\ identity = "tab-duplicator"

\* The worker at the loop position is sent {action: "identify"}; on a match
\* the loop breaks, else it goes on with the next worker.
DupIdentify(r) ==
    /\ At(r, "dupIdentify")
    /\ IF isTabDuplicator(identityOf(serviceWorkers[r][wi[r]]))
       THEN LoopFrom(r, serviceWorkers[r], wi[r], wi[r], Append(asked[r], wi[r]))
       ELSE LoopFrom(r, serviceWorkers[r], wi[r] + 1, Null, Append(asked[r], wi[r]))
    /\ UNCHANGED <<inputs, stuck, handles, sent, extraction, world>>

\* const workerContext = await tabDuplicatorWorker.worker()
DupContext(r) ==
    /\ At(r, "dupContext")
    /\ \/ /\ pc' = Upd(pc, r, "dupCommand")
          /\ UNCHANGED <<error, log, dupLocals, stuck>>
       \/ /\ DupThrows(r, ProtocolError)
          /\ UNCHANGED stuck
       \/ /\ Hangs(r)
          /\ UNCHANGED dupLocals
    /\ UNCHANGED <<inputs, handles, sent, extraction, world>>

\* const result = await workerContext.evaluate(() => new Promise(...)): the
\* callback of sendMessage runs in the worker and settles the promise; no
\* timer bounds this wait.
DupCommand(r) ==
    /\ At(r, "dupCommand")
    /\ \/ \E reply \in CommandReplies :
            /\ dupReply' = Upd(dupReply, r, Settled(reply, commandOutcome(reply)))
            /\ pc' = Upd(pc, r, "dupSettle")
            /\ UNCHANGED <<error, log, serviceWorkers, wi, tabDuplicatorWorker, asked, stuck>>
       \/ /\ DupThrows(r, ProtocolError)
          /\ UNCHANGED stuck
       \/ /\ Hangs(r)
          /\ UNCHANGED dupLocals
    /\ UNCHANGED <<inputs, handles, sent, extraction, world>>

\* The await continues with the settled promise: return result, or the
\* rejection is thrown (and rethrown by the function's own catch).
DupSettle(r) ==
    /\ At(r, "dupSettle")
    /\ IF dupReply[r].outcome = "<resolve>"
       THEN DupReturns(r)
       ELSE DupThrows(r, DupCommandError(<<dupReply[r].outcome>>))
    /\ UNCHANGED <<inputs, stuck, handles, sent, extraction, world>>

-----------------------------------------------------------------------------
(* Between navigation and extraction *)

MouseMove(r) == PageCall(r, "mouseMove", "scroll")
Scroll(r) == PageCall(r, "scroll", "postNavDelay")

\* if (method === "xpath") ... else ...
PostNavDelay(r) ==
    Delay(r, "postNavDelay",
          IF methodOf(body[r]) = "xpath" THEN "xpathEval" ELSE "waitForSelector")

-----------------------------------------------------------------------------
(* Extraction and the success responses *)

\* extractedData = await page.evaluate(xpathSelector => {...}, selector);
\* res.json(extractedData)
XPathEval(r) ==
    /\ At(r, "xpathEval")
    /\ \/ /\ ~Malformed(body[r].selector)
          /\ \E t \in XPathResultTypes :
                /\ extractedData' = Upd(extractedData, r, Array(xpathPayload(t, dom[r])))
                /\ resultType' = Upd(resultType, r, t)
                /\ sent' = Upd(sent, r,
                        Append(sent[r], Response(200, "application/json",
                                                 Array(xpathPayload(t, dom[r])))))
          /\ pc' = Upd(pc, r, "closePage")
          /\ log' = Logged(r, "responded")
          /\ UNCHANGED <<error, stuck>>
       \/ /\ \E m \in (IF Malformed(body[r].selector)
                       THEN {XPathSyntaxMsg(body[r].selector)}
                       ELSE {XPathMutatedMsg}) :
                Throws(r, XPathFailed(m), "xpathFailed")
          /\ UNCHANGED <<extractedData, resultType, sent, stuck>>
       \/ /\ Throws(r, ProtocolError, "xpathEvalFailed")
          /\ UNCHANGED <<extractedData, resultType, sent, stuck>>
       \/ /\ Hangs(r)
          /\ UNCHANGED <<extractedData, resultType, sent>>
    /\ UNCHANGED <<inputs, handles, dom, elementHandle, dupLocals, world>>

\* const elementHandle = await page.waitForSelector(selector, {timeout: 15000}).
\* Without the hidden option the promise never resolves to null, so the
\* null check after it never throws.
WaitForSelector(r) ==
    /\ At(r, "waitForSelector")
    /\ \/ /\ dom[r] # <<>>
          /\ elementHandle' = Upd(elementHandle, r, "held")
          /\ pc' = Upd(pc, r, "handleEval")
          /\ log' = Logged(r, "selectorFound")
          /\ UNCHANGED error
       \/ /\ dom[r] = <<>>
          /\ Throws(r, SelectorTimeout(body[r].selector), "selectorTimeout")
          /\ UNCHANGED elementHandle
       \/ /\ Throws(r, ProtocolError, "waitForSelectorFailed")
          /\ UNCHANGED elementHandle
    /\ UNCHANGED <<inputs, stuck, handles, sent, dom, extractedData, resultType,
                   dupLocals, world>>

\* extractedData = await elementHandle.evaluate(el => el.outerHTML)
HandleEval(r) ==
    /\ At(r, "handleEval")
    /\ \/ /\ extractedData' = Upd(extractedData, r, Html(cssPayload(dom[r])))
          /\ pc' = Upd(pc, r, "dispose")
          /\ UNCHANGED <<error, log, stuck>>
       \/ /\ Throws(r, ProtocolError, "handleEvalFailed")
          /\ UNCHANGED <<extractedData, stuck>>
       \/ /\ Hangs(r)
          /\ UNCHANGED extractedData
    /\ UNCHANGED <<inputs, handles, sent, dom, elementHandle, resultType, dupLocals, world>>

\* await elementHandle.dispose(); res.type("text/html").send(extractedData); return
Dispose(r) ==
    /\ At(r, "dispose")
    /\ \/ /\ elementHandle' = Upd(elementHandle, r, "disposed")
          /\ sent' = Upd(sent, r,
                  Append(sent[r], Response(200, "text/html", extractedData[r])))
          /\ pc' = Upd(pc, r, "closePage")
          /\ log' = Logged(r, "responded")
          /\ UNCHANGED <<error, stuck>>
       \/ /\ Throws(r, ProtocolError, "disposeFailed")
          /\ UNCHANGED <<elementHandle, sent, stuck>>
       \/ /\ Hangs(r)
          /\ UNCHANGED <<elementHandle, sent>>
    /\ UNCHANGED <<inputs, handles, dom, extractedData, resultType, dupLocals, world>>

-----------------------------------------------------------------------------
(* catch (error): classification and the error response *)

\* Mutation: the catch block logs the error and leaves the response to
\* nobody; the finally block runs next.
CatchSilent(r) ==
    /\ At(r, "catch")
    /\ pc' = Upd(pc, r, "closePage")
    /\ UNCHANGED <<inputs, stuck, handles, error, sent, log, extraction, dupLocals, world>>

\* statusCode is chosen from the error; res.status(statusCode).json({...})
Catch(r) ==
    /\ At(r, "catch")
    /\ sent' = Upd(sent, r,
            Append(sent[r], errorResponse(error[r], body[r].debug, nodeEnv)))
    /\ pc' = Upd(pc, r, "closePage")
    /\ log' = Logged(r, "responded")
    /\ UNCHANGED <<inputs, stuck, handles, error, extraction, dupLocals, world>>

-----------------------------------------------------------------------------
(* finally: cleanup. Each step is in its own try/catch, whose catch only   *)
(* logs.                                                                   *)

\* if (page), if (browser), if (userDataDir)
\* Mutation: the browser is closed on the success path only.
closesBrowserOnSuccess(r) == browser[r] # Null /\ error[r] = NoError

\* Mutation: the page is closed on the success path only.
closesPageOnSuccess(r) == page[r] # Null /\ error[r] = NoError

\* Mutation: the directory is removed only when a browser was launched.
removesDirWithBrowser(r) == userDataDir[r] # Null /\ browser[r] # Null

\* Mutation: a cleanup failure is handled like a failure of the request.
onCleanupErrorRethrow(next) == "catch"

\* Mutation: one try block around the three steps, a failure ends the cleanup.
onCleanupErrorAbort(next) == "done"

closesPage(r) == page[r] # Null
closesBrowser(r) == browser[r] # Null
removesDir(r) == userDataDir[r] # Null

\* catch (closeErr) / catch (rmErr): the error is logged to the console and
\* the handler goes on with the next step.
onCleanupError(next) == next
LoggedAll(r, evs) == Upd(log, r, log[r] \o evs)

\* await page.close()
ClosePage(r) ==
    /\ At(r, "closePage")
    /\ \/ /\ closesPage(r)
          /\ \/ /\ pages' = pages \ {page[r]}
                /\ pc' = Upd(pc, r, "closeBrowser")
                /\ log' = Logged(r, "page.close")
                /\ UNCHANGED stuck
             \/ /\ pc' = Upd(pc, r, onCleanupError("closeBrowser"))
                /\ log' = LoggedAll(r, <<"page.close", "page.closeFailed">>)
                /\ UNCHANGED <<pages, stuck>>
             \/ /\ stuck' = Upd(stuck, r, TRUE)
                /\ log' = Logged(r, "page.close")
                /\ UNCHANGED <<pc, pages>>
       \/ /\ ~closesPage(r)
          /\ pc' = Upd(pc, r, "closeBrowser")
          /\ UNCHANGED <<log, pages, stuck>>
    /\ UNCHANGED <<inputs, handles, error, sent, extraction, dupLocals, procs, dirs>>

\* await browser.close(): the pages of the browser go with the process.
CloseBrowser(r) ==
    /\ At(r, "closeBrowser")
    /\ \/ /\ closesBrowser(r)
          /\ \/ /\ procs' = procs \ {browser[r]}
                /\ pages' = pages \ {browser[r]}
                /\ pc' = Upd(pc, r, "removeDir")
                /\ log' = Logged(r, "browser.close")
                /\ UNCHANGED stuck
             \/ /\ pc' = Upd(pc, r, onCleanupError("removeDir"))
                /\ log' = LoggedAll(r, <<"browser.close", "browser.closeFailed">>)
                /\ UNCHANGED <<procs, pages, stuck>>
             \/ /\ stuck' = Upd(stuck, r, TRUE)
                /\ log' = Logged(r, "browser.close")
                /\ UNCHANGED <<pc, procs, pages>>
       \/ /\ ~closesBrowser(r)
          /\ pc' = Upd(pc, r, "removeDir")
          /\ UNCHANGED <<log, procs, pages, stuck>>
    /\ UNCHANGED <<inputs, handles, error, sent, extraction, dupLocals, dirs>>

\* await fs.promises.rm(userDataDir, {recursive: true, force: true}), or
\* fs.rmdirSync where fs.promises.rm does not exist: one of the two.
RemoveDir(r) ==
    /\ At(r, "removeDir")
    /\ \/ /\ removesDir(r)
          /\ \/ /\ dirs' = dirs \ {userDataDir[r]}
                /\ log' = Logged(r, "rm")
             \/ /\ log' = LoggedAll(r, <<"rm", "rmFailed">>)
                /\ UNCHANGED dirs
       \/ /\ ~removesDir(r)
          /\ UNCHANGED <<log, dirs>>
    /\ pc' = Upd(pc, r, "done")
    /\ UNCHANGED <<inputs, stuck, handles, error, sent, extraction, dupLocals, procs, pages>>

-----------------------------------------------------------------------------

Step(r) ==
    \/ Validate(r) \/ Mkdtemp(r) \/ Launch(r) \/ ListTargets(r) \/ NewPage(r)
    \/ SetViewport(r) \/ SetUserAgent(r) \/ PreNavDelay(r) \/ Goto(r)
    \/ DupTargets(r) \/ DupWorker(r) \/ DupIdentify(r) \/ DupContext(r)
    \/ DupCommand(r) \/ DupSettle(r)
    \/ MouseMove(r) \/ Scroll(r) \/ PostNavDelay(r)
    \/ XPathEval(r) \/ WaitForSelector(r) \/ HandleEval(r) \/ Dispose(r)
    \/ Catch(r)
    \/ ClosePage(r) \/ CloseBrowser(r) \/ RemoveDir(r)

Next == \E r \in Reqs : Step(r)

Spec == Init /\ [][Next]_vars

\* Two requests are in flight at once, their steps interleaved by the event
\* loop at every await: both ask for the h1 of the fixed page, or the
\* second one is rejected by the validation.
ConcBodies == {Body(FixedUrl, CssSel, "css", FALSE), Body(FixedUrl, <<>>, "css", FALSE)}

InitConc ==
    /\ nodeEnv = "production"
    /\ \E b \in ConcBodies :
          body = [r \in Reqs |-> IF r = 1 THEN Body(FixedUrl, CssSel, "css", FALSE)
                                 ELSE IF r = 2 THEN b
                                 ELSE Body(Missing, Missing, "<undefined>", FALSE)]
    /\ pc = [r \in Reqs |-> IF r \in {1, 2} THEN "start" ELSE "absent"]
    /\ stuck = [r \in Reqs |-> FALSE]
    /\ browser = [r \in Reqs |-> Null]
    /\ page = [r \in Reqs |-> Null]
    /\ userDataDir = [r \in Reqs |-> Null]
    /\ error = [r \in Reqs |-> NoError]
    /\ sent = [r \in Reqs |-> <<>>]
    /\ log = [r \in Reqs |-> <<>>]
    /\ dom = [r \in Reqs |-> <<>>]
    /\ elementHandle = [r \in Reqs |-> "none"]
    /\ extractedData = [r \in Reqs |-> Undefined]
    /\ resultType = [r \in Reqs |-> Null]
    /\ serviceWorkers = [r \in Reqs |-> <<>>]
    /\ wi = [r \in Reqs |-> 0]
    /\ tabDuplicatorWorker = [r \in Reqs |-> Null]
    /\ asked = [r \in Reqs |-> <<>>]
    /\ dupReply = [r \in Reqs |-> NoReply]
    /\ ext = [m \in Msgs |-> Unsent]
    /\ tabs = {1}
    /\ procs = {}
    /\ pages = {}
    /\ dirs = {}

\* The steps of a CSS request to a page that triggers no side effect.
StepCss(r) ==
    \/ Validate(r) \/ Mkdtemp(r) \/ Launch(r) \/ ListTargets(r) \/ NewPage(r)
    \/ SetViewport(r) \/ SetUserAgent(r) \/ PreNavDelay(r) \/ Goto(r)
    \/ MouseMove(r) \/ Scroll(r) \/ PostNavDelay(r)
    \/ WaitForSelector(r) \/ HandleEval(r) \/ Dispose(r)
    \/ Catch(r)
    \/ ClosePage(r) \/ CloseBrowser(r) \/ RemoveDir(r)

NextConc == \E r \in Reqs : StepCss(r)

SpecConc == InitConc /\ [][NextConc]_vars

-----------------------------------------------------------------------------
(* chrome.runtime.onMessage.addListener((request, sender, sendResponse) =>   *)
(* {...}) of background.js, one step per callback.                           *)

handlerVars ==
    <<nodeEnv, body, pc, stuck, handles, error, sent, log, extraction, dupLocals, world>>

\* The listener runs for message m: for duplicateTab it calls
\* chrome.tabs.query and returns true, which keeps the channel open; for
\* anything else it falls through and returns undefined, which closes the
\* channel with no reply.
ExtReceive(m) ==
    /\ ext[m].pc = "unsent"
    /\ \A k \in 1..(m - 1) : ext[k].pc # "unsent"
    /\ \E a \in SentActions :
          ext' = [ext EXCEPT ![m] = Message(a, IF handled(a) THEN "query" ELSE "closed",
                                            Null, <<>>)]
    /\ UNCHANGED <<tabs, handlerVars>>

\* (tabs) => { const currentTab = tabs[0]; chrome.tabs.duplicate(currentTab.id, ...) }:
\* without an active tab tabs[0] is undefined and currentTab.id throws.
ExtQuery(m) ==
    /\ ext[m].pc = "query"
    /\ \/ \E t \in tabs : ext' = [ext EXCEPT ![m].pc = "duplicate", ![m].tab = t]
       \/ ext' = [ext EXCEPT ![m].pc = "threw"]
    /\ UNCHANGED <<tabs, handlerVars>>

\* (newTab) => { sendResponse({success: true, newTabId: newTab.id}) }: when
\* the duplication fails newTab is undefined and newTab.id throws.
ExtDuplicate(m) ==
    /\ ext[m].pc = "duplicate"
    /\ \/ /\ ext' = [ext EXCEPT ![m].pc = "replied",
                                 ![m].replies = Append(@, Duplicated(Cardinality(tabs) + 1))]
          /\ tabs' = tabs \cup {Cardinality(tabs) + 1}
       \/ /\ ext' = [ext EXCEPT ![m].pc = "threw"]
          /\ UNCHANGED tabs
    /\ UNCHANGED handlerVars

ExtStep(m) == ExtReceive(m) \/ ExtQuery(m) \/ ExtDuplicate(m)

\* No request is in flight; the extension is sent up to MaxMsgs messages.
InitExt ==
    /\ nodeEnv = "production"
    /\ body = [r \in Reqs |-> Body(Missing, Missing, "<undefined>", FALSE)]
    /\ pc = [r \in Reqs |-> "absent"]
    /\ stuck = [r \in Reqs |-> FALSE]
    /\ browser = [r \in Reqs |-> Null]
    /\ page = [r \in Reqs |-> Null]
    /\ userDataDir = [r \in Reqs |-> Null]
    /\ error = [r \in Reqs |-> NoError]
    /\ sent = [r \in Reqs |-> <<>>]
    /\ log = [r \in Reqs |-> <<>>]
    /\ dom = [r \in Reqs |-> <<>>]
    /\ elementHandle = [r \in Reqs |-> "none"]
    /\ extractedData = [r \in Reqs |-> Undefined]
    /\ resultType = [r \in Reqs |-> Null]
    /\ serviceWorkers = [r \in Reqs |-> <<>>]
    /\ wi = [r \in Reqs |-> 0]
    /\ tabDuplicatorWorker = [r \in Reqs |-> Null]
    /\ asked = [r \in Reqs |-> <<>>]
    /\ dupReply = [r \in Reqs |-> NoReply]
    /\ ext = [m \in Msgs |-> Unsent]
    /\ tabs = {1}
    /\ procs = {}
    /\ pages = {}
    /\ dirs = {}

NextExt == \E m \in Msgs : ExtStep(m)

SpecExt == InitExt /\ [][NextExt]_vars

\* The event loop runs every continuation whose awaited call was answered.
FairSpec == Spec /\ \A r \in Reqs : WF_vars(Step(r))

-----------------------------------------------------------------------------
(* Properties *)

InLog(r, ev) == \E i \in DOMAIN log[r] : log[r][i] = ev
Count(r, ev) == Cardinality({ i \in DOMAIN log[r] : log[r][i] = ev })
Answered(r) == sent[r] # <<>>
Arrived(r) == pc[r] \notin {"absent", "start"}

\* C1: a request whose url or selector is missing or empty is answered with
\* a 400 validation error, and on that path no profile directory is
\* created, no browser is launched and no page is opened.
C1_ValidationBeforeAllocation ==
    \A r \in Reqs :
        (Arrived(r) /\ (body[r].url \in {Missing, <<>>} \/ body[r].selector \in {Missing, <<>>}))
        => /\ pc[r] = "done"
           /\ Len(sent[r]) = 1
           /\ sent[r][1].status = 400
           /\ userDataDir[r] = Null /\ browser[r] = Null /\ page[r] = Null
           /\ log[r] = <<"rejected">>

C1_Witness ==
    \E r \in Reqs :
        /\ pc[r] = "done"
        /\ Truthy(body[r].url)
        /\ body[r].selector = <<>>
        /\ Answered(r)

\* C2: for a request whose browser launch succeeded, exactly one close
\* attempt is made on the browser and exactly one removal attempt on the
\* profile directory, whichever way the work ended: never more than one of
\* each, and one of each once the handler has finished.
C2_OneTeardownPerSession ==
    \A r \in Reqs :
        /\ Count(r, "browser.close") <= 1
        /\ Count(r, "rm") <= 1
        /\ (pc[r] = "done" /\ InLog(r, "launched"))
           => (Count(r, "browser.close") = 1 /\ Count(r, "rm") = 1)

C2_Witness ==
    \E r \in Reqs :
        /\ pc[r] = "done"
        /\ InLog(r, "launched")
        /\ InLog(r, "handleEvalFailed")
        /\ Count(r, "browser.close") = 1
        /\ Count(r, "rm") = 1

\* The waits the handler makes on its collaborators: browser launch,
\* navigation, selector wait, identity handshake, extension command
\* round-trip, in-page evaluation.
CollaboratorWaits ==
    {"launch", "goto", "waitForSelector", "dupIdentify", "dupCommand", "xpathEval"}

\* C3: every request that passed validation sends a response and completes
\* cleanup, because every wait on a collaborator is bounded: a handler at
\* one of these waits can always take its next step, to the continuation
\* or to a failure.
C3_NoWaitWithoutBound ==
    \A r \in Reqs : pc[r] \in CollaboratorWaits => ENABLED Step(r)

\* C4: in CSS mode a selector that does not appear within the wait window
\* makes the request fail with status 404, never 504.
C4_SelectorTimeoutIs404 ==
    \A r \in Reqs :
        (InLog(r, "selectorTimeout") /\ Answered(r)) => sent[r][1].status = 404

\* C5: a navigation that does not settle within its timeout makes the
\* request fail with status 504.
C5_NavigationTimeoutIs504 ==
    \A r \in Reqs :
        (InLog(r, "gotoTimeout") /\ pc[r] \notin {"catch"})
        => (Len(sent[r]) = 1 /\ sent[r][1].status = 504)

C5_Witness ==
    \E r \in Reqs : InLog(r, "gotoTimeout") /\ Answered(r) /\ pc[r] = "done"

\* C6: a navigation failing with a network-level error is answered with
\* status 502, whatever else the message contains.
C6_NetworkErrorIs502 ==
    \A r \in Reqs :
        (InLog(r, "gotoNetError") /\ Answered(r)) => sent[r][1].status = 502

\* C7: an exception of the in-page XPath evaluation is re-surfaced with the
\* prefix 'XPath evaluation failed in browser:' followed by the original
\* message, and the request is answered with status 400, whatever the
\* original message contains.
C7_XPathFailureIs400 ==
    \A r \in Reqs :
        (InLog(r, "xpathFailed") /\ Answered(r))
        => /\ sent[r][1].status = 400
           /\ SubSeq(sent[r][1].body.details, 1, 2)
                = <<"XPath evaluation failed", " in browser: ">>

\* The patterns of the classification, read off a caught error.
TimeoutPattern(e) ==
    e.name = "TimeoutError" \/ \E i \in DOMAIN e.message : e.message[i] \in {"timeout", "exceeded"}
NotFoundPattern(e) ==
    /\ \E i \in DOMAIN e.message : e.message[i] = "selector"
    /\ \E i \in DOMAIN e.message : e.message[i] \in {"not found", "failed to find element"}
NavigationPattern(e) ==
    \E i \in DOMAIN e.message : e.message[i] \in {"Navigation failed", "net::ERR_"}
XPathPattern(e) ==
    \E i \in DOMAIN e.message : e.message[i] = "XPath evaluation failed"

\* C8: every failure the handler catches is answered with exactly one
\* status out of {400, 404, 500, 502, 504}, and a failure matching none of
\* the timeout, selector-not-found, navigation-failure and xpath patterns
\* is answered with 500; the catch block always gets to its response.
C8_ClassificationTotal ==
    \A r \in Reqs :
        /\ pc[r] = "catch" => ENABLED Catch(r)
        /\ (error[r] # NoError /\ pc[r] # "catch")
           => /\ Len(sent[r]) = 1
              /\ sent[r][1].status \in {400, 404, 500, 502, 504}
              /\ (~TimeoutPattern(error[r]) /\ ~NotFoundPattern(error[r])
                    /\ ~NavigationPattern(error[r]) /\ ~XPathPattern(error[r]))
                 => sent[r][1].status = 500

C8_Witness ==
    \E r \in Reqs :
        /\ error[r] = LaunchFailed
        /\ Answered(r)
        /\ sent[r][1].status = 500

HasStack(resp) == "stack" \in DOMAIN resp.body
IsErrorResponse(resp) == resp.status >= 400

SuccessResponses(r) ==
    IF methodOf(body[r]) = "xpath"
    THEN { Response(200, "application/json", Array(xpathPayload(t, dom[r]))) :
             t \in XPathResultTypes }
    ELSE IF dom[r] = <<>> THEN {}
    ELSE { Response(200, "text/html", Html(dom[r][1].outerHTML)) }

\* C10: when the tab duplication fails (no candidate worker, no worker
\* identifying as tab-duplicator, or the command rejected), the handler
\* goes on to extraction on the navigated page, and a request that then
\* succeeds returns the success payload of that page, the same with a
\* failed, a successful or no side effect.
C10_SideEffectFailureNonFatal ==
    \A r \in Reqs :
        /\ (log[r] # <<>> /\ log[r][Len(log[r])] = "dupFailed")
           => /\ pc[r] \in {"mouseMove", "scroll", "postNavDelay", "xpathEval",
                           "waitForSelector"}
              /\ error[r] = NoError
              /\ ~Answered(r)
        /\ (InLog(r, "navigated") /\ InLog(r, "responded") /\ error[r] = NoError)
           => (Len(sent[r]) = 1 /\ sent[r][1] \in SuccessResponses(r))

C10_Witness ==
    \E r \in Reqs :
        /\ InLog(r, "dupFailed")
        /\ pc[r] = "done"
        /\ error[r] = NoError
        /\ sent[r] = <<Response(200, "text/html", Html("<h1>Example Domain</h1>"))>>

LastEvent(r) == IF log[r] = <<>> THEN "<none>" ELSE log[r][Len(log[r])]
CleanupEvents == {"page.close", "browser.close", "rm"}

HoldsDir(r) == InLog(r, "mkdtemp") /\ ~InLog(r, "rm")
HoldsBrowser(r) == InLog(r, "launched") /\ ~InLog(r, "browser.close")
HoldsPage(r) ==
    InLog(r, "newPage") /\ ~InLog(r, "page.close") /\ ~InLog(r, "browser.close")

\* C12: in every interleaving of concurrent requests, two requests never
\* hold the same profile directory or the same browser process, and what a
\* request holds is alive until its own cleanup: the cleanup of another
\* request never closes or removes it.
C12_Isolation ==
    /\ \A r1, r2 \in Reqs :
          r1 # r2
          => /\ (HoldsDir(r1) /\ HoldsDir(r2)) => userDataDir[r1] # userDataDir[r2]
             /\ (HoldsBrowser(r1) /\ HoldsBrowser(r2)) => browser[r1] # browser[r2]
             /\ (HoldsPage(r1) /\ HoldsPage(r2)) => page[r1] # page[r2]
    /\ \A r \in Reqs :
          /\ HoldsDir(r) => userDataDir[r] \in dirs
          /\ HoldsBrowser(r) => browser[r] \in procs
          /\ HoldsPage(r) => page[r] \in pages

C12_Witness ==
    \E r1, r2 \in Reqs :
        /\ r1 # r2
        /\ pc[r1] = "done" /\ InLog(r1, "launched") /\ InLog(r1, "rm")
        /\ userDataDir[r1] \notin dirs /\ browser[r1] \notin procs
        /\ HoldsDir(r2) /\ HoldsBrowser(r2) /\ HoldsPage(r2)
        /\ pc[r2] = "waitForSelector"

XPathSucceeded(r) ==
    /\ methodOf(body[r]) = "xpath"
    /\ InLog(r, "responded")
    /\ error[r] = NoError

\* C13: a successful XPath request always sends an array: for every result
\* type (number, string, boolean, node iterator, node snapshot, single
\* node, unknown) the body of the 200 response is an array, and it has
\* exactly one element for a scalar, a single-node or an unknown-type
\* result.
C13_XPathPayloadIsArray ==
    \A r \in Reqs :
        XPathSucceeded(r)
        => /\ Len(sent[r]) = 1
           /\ sent[r][1].status = 200
           /\ sent[r][1].type = "application/json"
           /\ sent[r][1].body.kind = "array"
           /\ resultType[r] \in XPathResultTypes
           /\ resultType[r] \notin {4, 5, 6, 7} => Len(sent[r][1].body.items) = 1

C13_Witness ==
    \E r \in Reqs :
        /\ XPathSucceeded(r)
        /\ resultType[r] = 9
        /\ dom[r] = <<>>
        /\ sent[r][1].body = Array(<<JsNull>>)

\* What the in-page function makes of one matched node.
Projection(node) ==
    CASE node.nodeType = 1 -> JsString(<<node.outerHTML>>)
      [] node.nodeType \in {2, 3} -> JsString(<<node.nodeValue>>)
      [] node.nodeType = 8 -> JsString(<<"<!-- ", node.nodeValue, " -->">>)
      [] OTHER -> JsString(<<"Unsupported node type: ", ToString(node.nodeType)>>)

CssSucceeded(r) ==
    /\ methodOf(body[r]) # "xpath"
    /\ InLog(r, "responded")
    /\ error[r] = NoError

\* C15: a successful CSS request sends exactly the outer markup of the
\* first element matching the selector, as the raw string of a text/html
\* response; no other match contributes to the payload.
C15_CssFirstMatchMarkup ==
    \A r \in Reqs :
        CssSucceeded(r)
        => /\ dom[r] # <<>>
           /\ sent[r] = <<Response(200, "text/html", Html(dom[r][1].outerHTML))>>

C15_Witness ==
    \E r \in Reqs :
        /\ CssSucceeded(r)
        /\ dom[r] = <<ElemB, ElemA>>
        /\ sent[r][1].body = Html("<h1>Second</h1>")

\* C16: every failure response, the validation failure for a missing url or
\* selector included, is a JSON object with the fields error, details and
\* type and a status out of {400, 404, 500, 502, 504}.
C16_FailureShape ==
    \A r \in Reqs : \A i \in DOMAIN sent[r] :
        IsErrorResponse(sent[r][i])
        => /\ sent[r][i].type = "application/json"
           /\ {"error", "details", "type"} \subseteq DOMAIN sent[r][i].body
           /\ sent[r][i].status \in {400, 404, 500, 502, 504}

\* C17: the worker search asks the candidate workers for their identity one
\* at a time in list order and returns the first worker replying with
\* identity "tab-duplicator": workers replying anything else (or nothing)
\* are skipped, and no worker after the match is asked.
C17_FirstMatchInListOrder ==
    \A r \in Reqs :
        /\ \A i, j \in DOMAIN asked[r] : i < j => asked[r][i] < asked[r][j]
        /\ pc[r] \in {"dupWorker", "dupIdentify"}
           => /\ tabDuplicatorWorker[r] = Null
              /\ \A i \in DOMAIN asked[r] :
                    /\ asked[r][i] < wi[r]
                    /\ serviceWorkers[r][asked[r][i]].kind # "tab-duplicator"
              /\ \A k \in 1..(wi[r] - 1) :
                    serviceWorkers[r][k].kind # "ctxError"
                    => \E i \in DOMAIN asked[r] : asked[r][i] = k
        /\ pc[r] \in {"dupContext", "dupCommand"}
           => /\ tabDuplicatorWorker[r] \in DOMAIN serviceWorkers[r]
              /\ serviceWorkers[r][tabDuplicatorWorker[r]].kind = "tab-duplicator"
              /\ \A k \in 1..(tabDuplicatorWorker[r] - 1) :
                    serviceWorkers[r][k].kind # "tab-duplicator"
              /\ asked[r] # <<>>
              /\ asked[r][Len(asked[r])] = tabDuplicatorWorker[r]
              /\ \A k \in 1..tabDuplicatorWorker[r] :
                    serviceWorkers[r][k].kind # "ctxError"
                    => \E i \in DOMAIN asked[r] : asked[r][i] = k

C17_Witness ==
    \E r \in Reqs :
        /\ pc[r] = "dupCommand"
        /\ serviceWorkers[r] = <<Worker("a"), Worker("tab-duplicator")>>
        /\ tabDuplicatorWorker[r] = 2
        /\ asked[r] = <<1, 2>>

CleanupFailures == {"page.closeFailed", "browser.closeFailed", "rmFailed"}

\* C18: in cleanup the failure of one step (page close, browser close,
\* directory removal) does not keep the later steps from being attempted,
\* and no cleanup failure leaves the handler: the catch block is not
\* entered and the response already sent stays the only one.
C18_CleanupStepsIndependent ==
    \A r \in Reqs :
        /\ InLog(r, "page.closeFailed")
           => /\ pc[r] \in {"closeBrowser", "removeDir", "done"}
              /\ pc[r] = "closeBrowser" /\ ~stuck[r] => ENABLED CloseBrowser(r)
              /\ pc[r] \in {"removeDir", "done"} => InLog(r, "browser.close")
              /\ pc[r] = "done" => InLog(r, "rm")
        /\ InLog(r, "browser.closeFailed")
           => /\ pc[r] \in {"removeDir", "done"}
              /\ pc[r] = "removeDir" => ENABLED RemoveDir(r)
              /\ pc[r] = "done" => InLog(r, "rm")
        /\ (\E ev \in CleanupFailures : InLog(r, ev))
           => /\ Len(sent[r]) = 1
              /\ Count(r, "responded") = 1
              /\ LastEvent(r) \in CleanupEvents \cup CleanupFailures

C18_Witness ==
    \E r \in Reqs :
        /\ pc[r] = "done"
        /\ \A ev \in CleanupFailures : InLog(r, ev)
        /\ Len(sent[r]) = 1
        /\ sent[r][1].status = 200

Places(r, ev) == { i \in DOMAIN log[r] : log[r][i] = ev }
PlacesOf(r, evs) == { i \in DOMAIN log[r] : log[r][i] \in evs }

\* Every occurrence of event a in the history of r precedes every
\* occurrence of event b.
Before(r, a, b) == \A i \in Places(r, a) : \A j \in Places(r, b) : i < j

\* C19: cleanup runs exactly once per request that passed validation, in
\* the reverse order of creation: the page close is attempted before the
\* browser close and the browser close before the directory removal; each
\* is attempted once when the resource was created and not at all when it
\* was not.
C19_CleanupOnceInReverseOrder ==
    \A r \in Reqs :
        LET dirMade == Places(r, "mkdtemp")
            launched == Places(r, "launched")
            opened == Places(r, "newPage")
            pageClose == Places(r, "page.close")
            browserClose == Places(r, "browser.close")
            rm == Places(r, "rm")
        IN  /\ Cardinality(pageClose) <= 1
            /\ Cardinality(browserClose) <= 1
            /\ Cardinality(rm) <= 1
            /\ \A i \in pageClose : \A j \in browserClose \cup rm : i < j
            /\ \A i \in browserClose : \A j \in rm : i < j
            /\ \A i \in dirMade : \A j \in launched : i < j
            /\ \A i \in launched : \A j \in opened : i < j
            /\ pageClose # {} => opened # {}
            /\ browserClose # {} => launched # {}
            /\ rm # {} => dirMade # {}
            /\ (pc[r] = "done" /\ InLog(r, "validated"))
               => /\ opened # {} => Cardinality(pageClose) = 1
                  /\ launched # {} => Cardinality(browserClose) = 1
                  /\ dirMade # {} => Cardinality(rm) = 1

C19_Witness ==
    \E r \in Reqs :
        /\ pc[r] = "done"
        /\ \E i, j, k \in DOMAIN log[r] :
              /\ i < j /\ j < k
              /\ log[r][i] = "page.close"
              /\ log[r][j] = "browser.close"
              /\ log[r][k] = "rm"

ExtractionSteps == {"xpathEval", "waitForSelector", "handleEval", "dispose"}
ExtractionEvents ==
    {"selectorFound", "selectorTimeout", "waitForSelectorFailed", "handleEvalFailed",
     "disposeFailed", "xpathFailed", "xpathEvalFailed"}
CleanupSteps == {"closePage", "closeBrowser", "removeDir"}

\* C20: within one request the stages run in the order provision, navigate,
\* extract, respond, cleanup: no page is opened before the launch has
\* completed, no extraction starts before the navigation (and the side
\* effect, when triggered) has finished, and no cleanup step starts before
\* the response has been sent.
C20_StageOrder ==
    \A r \in Reqs :
        /\ Before(r, "launched", "newPage")
        /\ Before(r, "newPage", "navigated")
        /\ page[r] # Null => (InLog(r, "launched") /\ browser[r] # Null)
        /\ InLog(r, "navigated") => InLog(r, "newPage")
        /\ pc[r] \in ExtractionSteps
           => /\ InLog(r, "navigated")
              /\ ~Answered(r)
              /\ (\E i \in DOMAIN body[r].url : body[r].url[i] = "wsj.com/")
                 => /\ InLog(r, "dupOk") \/ InLog(r, "dupFailed")
                    /\ serviceWorkers[r] = <<>> /\ tabDuplicatorWorker[r] = Null
        /\ LET pre == PlacesOf(r, {"navigated", "dupOk", "dupFailed"})
               xtr == PlacesOf(r, ExtractionEvents)
               rsp == PlacesOf(r, {"responded"})
               cln == PlacesOf(r, CleanupEvents)
           IN  /\ \A i \in pre : \A j \in xtr : i < j
               /\ \A i \in xtr : \A j \in rsp : i < j
               /\ \A i \in rsp : \A j \in cln : i < j
               /\ xtr # {} => InLog(r, "navigated")
               /\ cln # {} => rsp # {}
        /\ pc[r] \in CleanupSteps => (Answered(r) /\ InLog(r, "responded"))

C20_Witness ==
    \E r \in Reqs :
        /\ pc[r] = "done"
        /\ log[r] = <<"validated", "mkdtemp", "launched", "newPage", "navigated",
                      "dupFailed", "selectorFound", "responded", "page.close",
                      "browser.close", "rm">>

\* C21: in CSS mode the element handle obtained by the selector wait is
\* disposed on every path after it was obtained, the path where reading its
\* outer markup throws included: no handle is still held once the page
\* close has been attempted.
C21_HandleReleasedBeforePageClose ==
    \A r \in Reqs :
        pc[r] \in {"closeBrowser", "removeDir", "done"} => elementHandle[r] # "held"

\* The worker at the loop position cannot be a match: its context cannot be
\* obtained, it does not answer within the second, or its messaging rejects.
SilentKinds == {"noreply", "msgError", "ctxError"}
AtSilentWorker(r) ==
    \/ pc[r] = "dupWorker" /\ serviceWorkers[r][wi[r]].kind = "ctxError"
    \/ pc[r] = "dupIdentify" /\ serviceWorkers[r][wi[r]].kind \in {"noreply", "msgError"}

\* C22: a worker that does not answer the identify message within one
\* second, or whose messaging or context acquisition raises an error, is a
\* non-match: the search goes on to the next worker of the list with no
\* error recorded, and ends as "not found" only when that worker was the
\* last of the list.
C22_SilentWorkerIsSkipped ==
    [][\A r \in Reqs :
          (AtSilentWorker(r) /\ <<pc[r], wi[r]>>' # <<pc[r], wi[r]>>)
          => /\ error'[r] = NoError
             /\ sent'[r] = sent[r]
             /\ IF wi[r] < Len(serviceWorkers[r])
                THEN /\ pc'[r] = "dupWorker"
                     /\ wi'[r] = wi[r] + 1
                     /\ serviceWorkers'[r] = serviceWorkers[r]
                     /\ log'[r] = log[r]
                ELSE /\ pc'[r] = "mouseMove"
                     /\ log'[r] = Append(log[r], "dupFailed")]_vars

C22_Witness ==
    \E r \in Reqs :
        /\ pc[r] = "dupCommand"
        /\ serviceWorkers[r] = <<Worker("ctxError"), Worker("tab-duplicator")>>
        /\ tabDuplicatorWorker[r] = 2
        /\ asked[r] = <<2>>

\* C23: the duplicateTab command resolves only for a reply with success
\* true; a channel-level error rejects with the channel's message, a
\* missing reply with "No response from extension", a reply with success
\* false with the reply's error text or "Unknown error".
C23_CommandOutcome ==
    \A r \in Reqs :
        pc[r] = "dupSettle"
        => LET reply == dupReply[r].reply
               outcome == dupReply[r].outcome
           IN  /\ outcome = "<resolve>"
                  <=> (reply.lastError = "<none>" /\ reply.response = "object"
                         /\ reply.success)
               /\ reply.lastError # "<none>" => outcome = reply.lastError
               /\ (reply.lastError = "<none>" /\ reply.response = "<undefined>")
                  => outcome = "No response from extension"
               /\ (reply.lastError = "<none>" /\ reply.response = "object"
                     /\ ~reply.success)
                  => outcome = (IF reply.error = "<undefined>" THEN "Unknown error"
                                ELSE reply.error)

C23_Witness ==
    \E r \in Reqs :
        /\ pc[r] = "dupSettle"
        /\ dupReply[r].reply.lastError # "<none>"
        /\ dupReply[r].outcome
             = "The message port closed before a response was received."

\* C24: the listener of the extension answers an {action: "identify"}
\* message with one reply that carries an identity.
C24_IdentifyIsAnswered ==
    \A m \in Msgs :
        (ext[m].action = "identify" /\ ext[m].pc # "unsent")
        => /\ Len(ext[m].replies) = 1
           /\ "identity" \in DOMAIN ext[m].replies[1]

\* C25: every duplicateTab message the listener receives gets exactly one
\* reply {success, newTabId?, error?}: never a second one, and the listener
\* does not come to rest without one; without an active tab or with a
\* failed duplication the reply has success false.
C25_DuplicateTabIsAnswered ==
    \A m \in Msgs :
        ext[m].action = "duplicateTab"
        => /\ Len(ext[m].replies) <= 1
           /\ \A i \in DOMAIN ext[m].replies : "success" \in DOMAIN ext[m].replies[i]
           /\ Len(ext[m].replies) = 1 \/ ENABLED ExtStep(m)

DupSteps == {"dupTargets", "dupWorker", "dupIdentify", "dupContext", "dupCommand", "dupSettle"}
MatchesDomain(r) == \E i \in DOMAIN body[r].url : body[r].url[i] = "wsj.com/"

\* C26: the extension side effect is run at most once per request, only
\* after the navigation succeeded and before extraction starts, and only
\* for a request url containing "wsj.com/"; for any other url no identify
\* and no duplicateTab message is sent.
C26_SideEffectOnceAndConditional ==
    \A r \in Reqs :
        LET ran == PlacesOf(r, {"dupOk", "dupFailed"})
            nav == PlacesOf(r, {"navigated"})
            later == PlacesOf(r, ExtractionEvents \cup {"responded"})
        IN  /\ Cardinality(ran) <= 1
            /\ pc[r] \in DupSteps
               => /\ MatchesDomain(r)
                  /\ LastEvent(r) = "navigated"
                  /\ error[r] = NoError /\ ~Answered(r)
            /\ ran # {}
               => /\ MatchesDomain(r)
                  /\ nav # {}
                  /\ \A i \in nav : \A j \in ran : i < j
                  /\ \A i \in ran : \A j \in later : i < j
            /\ ~MatchesDomain(r)
               => /\ pc[r] \notin DupSteps
                  /\ asked[r] = <<>> /\ dupReply[r] = NoReply
                  /\ ran = {}
            /\ (MatchesDomain(r) /\ pc[r] \in ExtractionSteps) => Cardinality(ran) = 1

C26_Witness ==
    \E r \in Reqs :
        /\ MatchesDomain(r)
        /\ pc[r] = "done"
        /\ Count(r, "dupOk") = 1 /\ Count(r, "dupFailed") = 0
        /\ error[r] = NoError

CleanupStarted(r) == pc[r] \in CleanupSteps \/ \E ev \in CleanupEvents : InLog(r, ev)

\* C27: a failure during cleanup never changes the response of the
\* request: from the moment cleanup starts, what was sent (status code and
\* payload) stays as it is.
C27_CleanupKeepsResponse ==
    [][\A r \in Reqs : CleanupStarted(r) => sent'[r] = sent[r]]_vars

C27_Witness ==
    \E r \in Reqs :
        /\ pc[r] = "done"
        /\ InLog(r, "gotoTimeout")
        /\ InLog(r, "page.closeFailed") /\ InLog(r, "rmFailed")
        /\ Len(sent[r]) = 1
        /\ sent[r][1].status = 504

\* C28: each matched XPath node is projected by its node type: an element
\* to its outer markup, an attribute or text node to its node value, a
\* comment node to "<!-- value -->", any other node type to
\* "Unsupported node type: <type>".
C28_ProjectionByNodeType ==
    \A r \in Reqs :
        (XPathSucceeded(r) /\ resultType[r] \in 4..9)
        => \A i \in DOMAIN sent[r][1].body.items :
              LET node == dom[r][i]
                  item == sent[r][1].body.items[i]
              IN  IF dom[r] = <<>> THEN item = JsNull
                  ELSE /\ item.t = "string"
                       /\ node.nodeType = 1 => item.v = <<node.outerHTML>>
                       /\ node.nodeType \in {2, 3} => item.v = <<node.nodeValue>>
                       /\ node.nodeType = 8 => item.v = <<"<!-- ", node.nodeValue, " -->">>
                       /\ node.nodeType \notin {1, 2, 3, 8}
                          => item.v = <<"Unsupported node type: ", ToString(node.nodeType)>>

C28_Witness ==
    \E r \in Reqs :
        /\ XPathSucceeded(r)
        /\ resultType[r] = 5
        /\ dom[r] = <<CommentC, DocD>>
        /\ sent[r][1].body.items
             = <<JsString(<<"<!-- ", "a comment", " -->">>),
                 JsString(<<"Unsupported node type: ", "9">>)>>

\* C29: when the profile directory was created and the browser launch then
\* fails or times out, the request goes through to its end: it sends an
\* error response, attempts the removal of the directory exactly once and
\* attempts no page close and no browser close; no directory a request
\* created is left without a removal attempt when the handler finishes.
C29_LaunchFailureRemovesDirectory ==
    \A r \in Reqs :
        /\ InLog(r, "launchFailed")
           => /\ InLog(r, "mkdtemp") /\ userDataDir[r] # Null
              /\ browser[r] = Null /\ page[r] = Null
              /\ ~InLog(r, "page.close") /\ ~InLog(r, "browser.close")
              /\ Count(r, "rm") <= 1
              /\ ~stuck[r]
              /\ pc[r] \in {"catch", "closePage", "closeBrowser", "removeDir", "done"}
              /\ pc[r] # "done" => ENABLED Step(r)
              /\ pc[r] # "catch"
                 => /\ Len(sent[r]) = 1
                    /\ sent[r][1].status \in {500, 504}
                    /\ sent[r][1].body.error = "Scraping failed"
              /\ pc[r] = "done" => Count(r, "rm") = 1
        /\ (pc[r] = "done" /\ InLog(r, "mkdtemp")) => InLog(r, "rm")

C29_Witness ==
    \E r \in Reqs :
        /\ pc[r] = "done"
        /\ error[r] = LaunchTimeout
        /\ log[r] = <<"validated", "mkdtemp", "launchFailed", "responded", "rm">>
        /\ userDataDir[r] \notin dirs

\* C30: exactly one response is sent per request on every path: never a
\* second one, and never none, that is, a handler that has not responded
\* can always take its next step towards the response.
C30_ExactlyOneResponse ==
    \A r \in Reqs :
        Arrived(r)
        => /\ Len(sent[r]) <= 1
           /\ Len(sent[r]) = 1 \/ ENABLED Step(r)

-----------------------------------------------------------------------------
(* Choice of the extraction strategy *)

XPathSteps == {"xpathEval"}
CssSteps == {"waitForSelector", "handleEval", "dispose"}
XPathEvents == {"xpathFailed", "xpathEvalFailed"}
CssEvents ==
    {"selectorFound", "selectorTimeout", "waitForSelectorFailed", "handleEvalFailed",
     "disposeFailed"}

\* The request took the XPath branch, or the CSS branch, of the extraction.
TookXPath(r) ==
    pc[r] \in XPathSteps \/ PlacesOf(r, XPathEvents) # {} \/ resultType[r] # Null
TookCss(r) ==
    pc[r] \in CssSteps \/ PlacesOf(r, CssEvents) # {} \/ elementHandle[r] # "none"

\* C31: the extraction strategy is chosen by exact comparison of the
\* method field with "xpath": only that value takes the XPath branch; a
\* request whose method is absent, "css" or any other value ("XPATH", an
\* unknown word) takes the CSS branch (a successful one is answered with
\* text/html, never with a JSON array), and the method plays no part in the
\* validation: a request is rejected with 400 exactly when its url or
\* selector is missing or empty.
C31_MethodExactlyXPath ==
    \A r \in Reqs :
        Arrived(r)
        => /\ TookXPath(r) => body[r].method = "xpath"
           /\ TookCss(r) => body[r].method # "xpath"
           /\ pc[r] \in ExtractionSteps
              => (pc[r] \in XPathSteps <=> body[r].method = "xpath")
           /\ \A i \in DOMAIN sent[r] :
                 sent[r][i].status = 200
                 => /\ sent[r][i].type = "application/json" <=> body[r].method = "xpath"
                    /\ sent[r][i].type = "text/html" <=> body[r].method # "xpath"
           /\ InLog(r, "rejected")
              <=> (body[r].url \in {Missing, <<>>} \/ body[r].selector \in {Missing, <<>>})
           /\ (InLog(r, "rejected") /\ pc[r] = "done")
              => sent[r] = <<validationResponse>>

\* A request with method "XPATH" has passed the validation and has been
\* answered with the markup of the first matching element.
C31_Witness ==
    \E r \in Reqs :
        /\ body[r].method = "XPATH"
        /\ TookCss(r)
        /\ InLog(r, "validated") /\ InLog(r, "selectorFound")
        /\ pc[r] = "done"
        /\ error[r] = NoError
        /\ Len(sent[r]) = 1
        /\ sent[r][1].status = 200 /\ sent[r][1].type = "text/html"
        /\ sent[r][1].body = Html("<h1>Example Domain</h1>")

=============================================================================
